---------------------------- MODULE Spec2Model ----------------------------
(***************************************************************************)
(* A model of incl.py: inclination (roll/pitch) correction of LIDAR point  *)
(* clouds.  Every function of the library that a property below is about   *)
(* is modelled as a small state machine over its own variables; each has   *)
(* its own specification (SpecIncl, SpecFilter, SpecWarp, SpecPhi,         *)
(* SpecRead, SpecPipe) because the library has no state shared between     *)
(* calls.                                                                  *)
(*                                                                         *)
(* Numbers.  Times, angles and coordinates are floats in the source; here  *)
(* they are integers (fixed point, unit 1).  Angles are in degrees and     *)
(* only multiples of 90 are rotated by, so that cos and sin are exact.     *)
(* Midpoints of times are kept doubled (a + b instead of (a + b) / 2).     *)
(* IEEE NaN is the distinguished value NaN, and comparisons go through     *)
(* FloatGT so that every comparison with NaN is false, as in numpy.        *)
(***************************************************************************)
EXTENDS Integers, Sequences, FiniteSets, TLC

VARIABLES
    \* get_incl
    gi_file,      \* the data rows of the inclination file (header skipped)
    gi_pc,        \* position in get_incl
    gi_incl,      \* the local array incl
    gi_ret,       \* the returned (t, roll, pitch)
    \* filter_incl
    fi_incl,      \* the argument incl
    fi_klen,      \* the argument kernel_length
    fi_pc,        \* position in filter_incl
    fi_padded,    \* the local array padded_incl
    fi_ret,       \* the returned filtered_incl
    \* warp_cloud
    w_pt,         \* point times
    w_x, w_y, w_z,        \* point coordinates
    w_it,         \* inclination times
    w_roll, w_pitch,      \* roll and pitch of every inclination sample
    w_pc,         \* position in warp_cloud
    w_ret,        \* the returned (x_rot, y_rot, z_rot)
    \* get_phi
    ph_it,        \* inclination times
    ph_pt, ph_x, ph_y,    \* the arguments pt, x, y
    ph_pc,        \* position in get_phi
    ph_mpt, ph_mx, ph_my, \* pt, x, y after the near-field mask
    ph_idx,       \* the local array idx (positions count from 0)
    ph_ret,       \* the returned phi
    \* get_pnts and get_socs: one run of the point-cloud engine
    rd_fn,        \* the function called
    rd_file,      \* the points of the input file, in file order
    rd_stage,     \* the number of stages of the pipeline executed so far
    rd_view,      \* the engine's point view
    rd_out,       \* the points written to the output file, if any
    rd_ret,       \* the returned arrays, as rows
    \* the orchestration pipelines
    pl_name,      \* the pipeline called
    pl_georef,    \* its argument georef
    pl_sop, pl_pop,       \* the matrices in sop_file and pop_file
    heap,         \* the arrays that exist: heap[i] is the array with identity i
    pl_args,      \* the identities of the caller's arrays, by parameter name
    pl_orig,      \* the values of the caller's arrays at the call
    pl_loc,       \* the identities of the arrays bound to local names
    pl_scal,      \* the scalar and tuple locals
    pl_pc,        \* the number of steps executed
    pl_status,    \* running, done or raised
    pl_failed,    \* the step that raised
    pl_trace,     \* the steps executed, in order
    pl_fs         \* the files written, in order

inclVars == <<gi_file, gi_pc, gi_incl, gi_ret>>

filterVars == <<fi_incl, fi_klen, fi_pc, fi_padded, fi_ret>>

warpVars == <<w_pt, w_x, w_y, w_z, w_it, w_roll, w_pitch, w_pc, w_ret>>

phiVars == <<ph_it, ph_pt, ph_x, ph_y, ph_pc, ph_mpt, ph_mx, ph_my, ph_idx,
             ph_ret>>

readVars == <<rd_fn, rd_file, rd_stage, rd_view, rd_out, rd_ret>>

pipeVars == <<pl_name, pl_georef, pl_sop, pl_pop, heap, pl_args, pl_orig,
              pl_loc, pl_scal, pl_pc, pl_status, pl_failed, pl_trace, pl_fs>>

vars == <<inclVars, filterVars, warpVars, phiVars, readVars, pipeVars>>

\* what an action of one function leaves alone: the other functions' state
OnlyIncl == UNCHANGED <<filterVars, warpVars, phiVars, readVars, pipeVars>>

OnlyFilter == UNCHANGED <<inclVars, warpVars, phiVars, readVars, pipeVars>>

OnlyWarp == UNCHANGED <<inclVars, filterVars, phiVars, readVars, pipeVars>>

OnlyPhi == UNCHANGED <<inclVars, filterVars, warpVars, readVars, pipeVars>>

OnlyRead == UNCHANGED <<inclVars, filterVars, warpVars, phiVars, pipeVars>>

OnlyPipe == UNCHANGED <<inclVars, filterVars, warpVars, phiVars, readVars>>

\* a function that is not called in a specification stays idle
InclIdle ==
    /\ gi_file = <<>>
    /\ gi_pc = "idle"
    /\ gi_incl = <<>>
    /\ gi_ret = [t |-> <<>>, roll |-> <<>>, pitch |-> <<>>]

FilterIdle ==
    /\ fi_incl = <<>>
    /\ fi_klen = 0
    /\ fi_pc = "idle"
    /\ fi_padded = <<>>
    /\ fi_ret = <<>>

WarpIdle ==
    /\ w_pt = <<>> /\ w_x = <<>> /\ w_y = <<>> /\ w_z = <<>>
    /\ w_it = <<>> /\ w_roll = <<>> /\ w_pitch = <<>>
    /\ w_pc = "idle"
    /\ w_ret = [x |-> <<>>, y |-> <<>>, z |-> <<>>]

PhiIdle ==
    /\ ph_it = <<>> /\ ph_pt = <<>> /\ ph_x = <<>> /\ ph_y = <<>>
    /\ ph_pc = "idle"
    /\ ph_mpt = <<>> /\ ph_mx = <<>> /\ ph_my = <<>>
    /\ ph_idx = <<>>
    /\ ph_ret = <<>>

ReadIdle ==
    /\ rd_fn = "idle"
    /\ rd_file = <<>>
    /\ rd_stage = 0
    /\ rd_view = <<>>
    /\ rd_out = <<>>
    /\ rd_ret = <<>>

PipeIdle ==
    /\ pl_name = "idle"
    /\ pl_georef = FALSE
    /\ pl_sop = <<>> /\ pl_pop = <<>>
    /\ heap = <<>>
    /\ pl_args = <<>> /\ pl_orig = <<>> /\ pl_loc = <<>> /\ pl_scal = <<>>
    /\ pl_pc = 0
    /\ pl_status = "idle"
    /\ pl_failed = ""
    /\ pl_trace = <<>>
    /\ pl_fs = <<>>

(***************************************************************************)
(* Helpers on sequences                                                    *)
(***************************************************************************)
Range(s) == {s[i] : i \in DOMAIN s}

SeqsUpTo(S, n) == UNION {[1..k -> S] : k \in 0..n}

Min(a, b) == IF a <= b THEN a ELSE b

Max(a, b) == IF a >= b THEN a ELSE b

\* np.flip of a 1-D array
Flip(s) == [i \in 1..Len(s) |-> s[Len(s) + 1 - i]]

\* a[mask] for a boolean mask of the same length
RECURSIVE Compress(_, _)
Compress(s, mask) ==
    IF s = <<>> THEN <<>>
    ELSE IF Head(mask) THEN <<Head(s)>> \o Compress(Tail(s), Tail(mask))
         ELSE Compress(Tail(s), Tail(mask))

\* a[idx] for an array idx of (1-based) positions
Take(s, idx) == [k \in 1..Len(idx) |-> s[idx[k]]]

\* the sum of s[lo..hi], by halves
RECURSIVE SumRange(_, _, _)
SumRange(s, lo, hi) ==
    IF lo > hi THEN 0
    ELSE IF lo = hi THEN s[lo]
    ELSE LET m == (lo + hi) \div 2
         IN  SumRange(s, lo, m) + SumRange(s, m + 1, hi)

SumSeq(s) == SumRange(s, 1, Len(s))

(***************************************************************************)
(* Floats                                                                  *)
(***************************************************************************)
\* the IEEE not-a-number value that np.isnan tests for
NaN == -99

isnan(v) == v = NaN

\* a > b on floats: false when either side is NaN
FloatGT(a, b) == ~isnan(a) /\ ~isnan(b) /\ a > b

(***************************************************************************)
(* get_incl: read an inclination file, drop garbage, drop duplicates       *)
(***************************************************************************)
MaxRows == 3
InclTimes == {NaN, -1, 0, 1, 2}
InclRolls == {10, 20}
InclPitches == {30, 40}

\* np.loadtxt(filename, delimiter=",", skiprows=1): a file of two or more
\* rows is a 2-D array; one row or none is squeezed to a 1-D array
loadtxt(rows) ==
    IF Len(rows) >= 2 THEN [ndim |-> 2, rows |-> rows]
    ELSE [ndim |-> 1, rows |-> rows]

\* argsort(kind='mergesort'): positions ordered by value, ties by position
RECURSIVE InsertStable(_, _, _)
InsertStable(perm, i, ts) ==
    IF perm = <<>> THEN <<i>>
    ELSE IF ts[Head(perm)] <= ts[i]
         THEN <<Head(perm)>> \o InsertStable(Tail(perm), i, ts)
         ELSE <<i>> \o perm

RECURSIVE ArgsortFrom(_, _, _)
ArgsortFrom(perm, i, ts) ==
    IF i > Len(ts) THEN perm
    ELSE ArgsortFrom(InsertStable(perm, i, ts), i + 1, ts)

\* the mutation: ties ordered by descending position (an unstable sort)
RECURSIVE InsertUnstable(_, _, _)
InsertUnstable(perm, i, ts) ==
    IF perm = <<>> THEN <<i>>
    ELSE IF ts[Head(perm)] < ts[i]
         THEN <<Head(perm)>> \o InsertUnstable(Tail(perm), i, ts)
         ELSE <<i>> \o perm

RECURSIVE ArgsortFromUnstable(_, _, _)
ArgsortFromUnstable(perm, i, ts) ==
    IF i > Len(ts) THEN perm
    ELSE ArgsortFromUnstable(InsertUnstable(perm, i, ts), i + 1, ts)

argsort_unstable(ts) == ArgsortFromUnstable(<<>>, 1, ts)

argsort(ts) == ArgsortFrom(<<>>, 1, ts)

\* np.unique(ar, return_index=True): sort, keep the first of every run of
\* equal values; returns the positions (in ar) of the values kept
unique_index(ts) ==
    LET perm == argsort(ts)
        aux  == Take(ts, perm)
        mask == [k \in 1..Len(aux) |-> k = 1 \/ aux[k] # aux[k - 1]]
    IN  Compress(perm, mask)

\* line 78; incl[:,0] on line 80 needs a 2-D array (IndexError otherwise)
get_incl_load ==
    /\ gi_pc = "load"
    /\ LET a == loadtxt(gi_file)
       IN  IF a.ndim = 2
           THEN gi_incl' = a.rows /\ gi_pc' = "garbage"
           ELSE gi_incl' = a.rows /\ gi_pc' = "raised"
    /\ UNCHANGED <<gi_file, gi_ret>>
    /\ OnlyIncl

\* line 80: incl = incl[incl[:,0] > 0]
get_incl_positive ==
    /\ gi_pc = "garbage"
    /\ gi_incl' = Compress(gi_incl,
                     [k \in 1..Len(gi_incl) |-> FloatGT(gi_incl[k][1], 0)])
    /\ gi_pc' = "nan"
    /\ UNCHANGED <<gi_file, gi_ret>>
    /\ OnlyIncl

\* line 81: incl = incl[~np.isnan(incl[:,0])]
get_incl_notnan ==
    /\ gi_pc = "nan"
    /\ gi_incl' = Compress(gi_incl,
                     [k \in 1..Len(gi_incl) |-> ~isnan(gi_incl[k][1])])
    /\ gi_pc' = "unique"
    /\ UNCHANGED <<gi_file, gi_ret>>
    /\ OnlyIncl

\* lines 83-84: garbage, idx = np.unique(incl[:,0], return_index=True)
get_incl_unique ==
    /\ gi_pc = "unique"
    /\ LET idx == unique_index([k \in 1..Len(gi_incl) |-> gi_incl[k][1]])
       IN  gi_incl' = Take(gi_incl, idx)
    /\ gi_pc' = "return"
    /\ UNCHANGED <<gi_file, gi_ret>>
    /\ OnlyIncl

\* lines 86-90
get_incl_return ==
    /\ gi_pc = "return"
    /\ gi_ret' = [t     |-> [k \in 1..Len(gi_incl) |-> gi_incl[k][1]],
                  roll  |-> [k \in 1..Len(gi_incl) |-> gi_incl[k][2]],
                  pitch |-> [k \in 1..Len(gi_incl) |-> gi_incl[k][3]]]
    /\ gi_pc' = "done"
    /\ UNCHANGED <<gi_file, gi_incl>>
    /\ OnlyIncl

InitIncl ==
    /\ FilterIdle /\ WarpIdle /\ PhiIdle /\ ReadIdle /\ PipeIdle
    /\ gi_file \in SeqsUpTo(InclTimes \X InclRolls \X InclPitches, MaxRows)
    /\ gi_pc = "load"
    /\ gi_incl = <<>>
    /\ gi_ret = [t |-> <<>>, roll |-> <<>>, pitch |-> <<>>]

NextIncl ==
    \/ get_incl_load
    \/ get_incl_positive
    \/ get_incl_notnan
    \/ get_incl_unique
    \/ get_incl_return

SpecIncl == InitIncl /\ [][NextIncl]_vars

(***************************************************************************)
(* C4: get_incl returns strictly increasing times, none of them            *)
(* non-positive or NaN, exactly one row for every distinct valid time of   *)
(* the file, and with each time the roll and pitch of the first row of the *)
(* file that carries it.                                                   *)
(***************************************************************************)
ValidTimes(rows) ==
    {rows[k][1] : k \in {j \in DOMAIN rows : rows[j][1] # NaN /\ rows[j][1] > 0}}

FirstRowWith(rows, t) ==
    rows[CHOOSE j \in DOMAIN rows :
            /\ rows[j][1] = t
            /\ \A i \in DOMAIN rows : rows[i][1] = t => j <= i]

C4_Dedup ==
    gi_pc = "done" =>
        LET t == gi_ret.t IN
        /\ \A k \in 1..(Len(t) - 1) : t[k] < t[k + 1]
        /\ \A k \in DOMAIN t : t[k] # NaN /\ t[k] > 0
        /\ Range(t) = ValidTimes(gi_file)
        /\ Len(t) = Cardinality(ValidTimes(gi_file))
        /\ Len(gi_ret.roll) = Len(t) /\ Len(gi_ret.pitch) = Len(t)
        /\ \A k \in DOMAIN t :
              /\ gi_ret.roll[k] = FirstRowWith(gi_file, t[k])[2]
              /\ gi_ret.pitch[k] = FirstRowWith(gi_file, t[k])[3]

\* a file out of order, with a NaN row, a non-positive row and a duplicated
\* time whose rows differ, has been read
C4_Witness ==
    /\ gi_pc = "done"
    /\ Len(gi_file) = 3
    /\ gi_file[1][1] = 2 /\ gi_file[2][1] = 1 /\ gi_file[3][1] = 1
    /\ gi_file[2][2] # gi_file[3][2]
    /\ gi_ret.t = <<1, 2>>

(***************************************************************************)
(* filter_incl: Blackman low-pass filter with mirrored padding             *)
(***************************************************************************)
MaxN == 5
MaxKernel == 5
FilterValues == {0, 4}

\* kernel_length=101, the default (line 93)
DefaultKernelLength == 101
\* the number of samples next to each end whose mean the padding mirrors
\* about (lines 102 and 105)
PadMeanLen == 10

\* the first half of np.blackman(101), in units of 1e-5 (the window is
\* symmetric)
Blackman101 ==
    <<  0, 36, 143, 324, 581, 919, 1343, 1858, 2471, 3190, 4021, 4973,
        6054, 7270, 8630, 10139, 11802, 13626, 15612, 17762, 20077, 22555,
        25193, 27985, 30924, 34000, 37203, 40518, 43931, 47424, 50979,
        54574, 58190, 61801, 65385, 68917, 72372, 75725, 78951, 82025,
        84923, 87623, 90102, 92341, 94321, 96025, 97440, 98553, 99354,
        99838, 100000 >>

\* np.blackman(M) as float64 computes it, in units of 1e-5.  M = 2: both taps
\* are the same rounding residue (-1.39e-17), so that the normalised kernel
\* is (1/2, 1/2); they are entered as 1 and 1.
blackman(M) ==
    CASE M <= 0 -> <<>>
      [] M = 1 -> <<100000>>
      [] M = 2 -> <<1, 1>>
      [] M = 3 -> <<0, 100000, 0>>
      [] M = 4 -> <<0, 63000, 63000, 0>>
      [] M = 5 -> <<0, 34000, 100000, 34000, 0>>
      [] M = 6 -> <<0, 20077, 84923, 84923, 20077, 0>>
      [] M = 7 -> <<0, 13000, 63000, 100000, 63000, 13000, 0>>
      [] M = 8 -> <<0, 9045, 45918, 92036, 92036, 45918, 9045, 0>>
      [] M = DefaultKernelLength ->
            [n \in 1..DefaultKernelLength |->
                Blackman101[Min(n, DefaultKernelLength + 1 - n)]]

\* a[0:n] for n >= 0
SliceFirst(s, n) == SubSeq(s, 1, Min(n, Len(s)))

\* a[-n:] for n >= 0; a[-0:] is a[0:], the whole array
SliceLast(s, n) ==
    IF n = 0 THEN s ELSE SubSeq(s, Len(s) - Min(n, Len(s)) + 1, Len(s))

\* np.mean: NaN (and a warning) for an empty array
mean(s) == IF s = <<>> THEN NaN ELSE SumSeq(s) \div Len(s)

\* 2 * m - pad, elementwise
Mirror(m, pad) ==
    [i \in 1..Len(pad) |-> IF isnan(m) THEN NaN ELSE 2 * m - pad[i]]

\* np.int(kernel_length/2), line 99
pad_width(kernel_length) == kernel_length \div 2

\* lines 99-106
padded_incl(incl, kernel_length) ==
    LET pw        == pad_width(kernel_length)
        start_rev == Flip(SliceFirst(incl, pw))
        start_pad == Mirror(mean(SliceLast(start_rev, PadMeanLen)), start_rev)
        end_rev   == Flip(SliceLast(incl, pw))
        end_pad   == Mirror(mean(SliceFirst(end_rev, PadMeanLen)), end_rev)
    IN  start_pad \o incl \o end_pad

\* np.convolve(a, v, mode='valid') with v = kernel / np.sum(kernel) (line 97):
\* the shorter argument slides over the longer; an empty argument raises
\* ValueError.  The weights are divided by their sum after the products are
\* added up.
RECURSIVE DotRev(_, _, _, _, _)
DotRev(a, v, n, lo, hi) ==
    IF lo > hi THEN 0
    ELSE IF lo = hi THEN a[n + lo - 1] * v[Len(v) + 1 - lo]
    ELSE LET m == (lo + hi) \div 2
         IN  DotRev(a, v, n, lo, m) + DotRev(a, v, n, m + 1, hi)

convolve_valid(a0, v0, vsum) ==
    LET a == IF Len(v0) > Len(a0) THEN v0 ELSE a0
        v == IF Len(v0) > Len(a0) THEN a0 ELSE v0
    IN  [n \in 1..(Len(a) - Len(v) + 1) |-> DotRev(a, v, n, 1, Len(v)) \div vsum]

\* lines 96-111: [ok |-> FALSE] when np.convolve raises
filter_incl(incl, kernel_length) ==
    LET kernel == blackman(kernel_length)
        padded == padded_incl(incl, kernel_length)
    IN  IF kernel = <<>> \/ padded = <<>>
        THEN [ok |-> FALSE, val |-> <<>>]
        ELSE [ok |-> TRUE,
              val |-> convolve_valid(padded, kernel, SumSeq(kernel))]

\* lines 96-106
filter_incl_pad ==
    /\ fi_pc = "pad"
    /\ fi_padded' = padded_incl(fi_incl, fi_klen)
    /\ fi_pc' = "convolve"
    /\ UNCHANGED <<fi_incl, fi_klen, fi_ret>>
    /\ OnlyFilter

\* lines 109-111
filter_incl_convolve ==
    /\ fi_pc = "convolve"
    /\ LET r == filter_incl(fi_incl, fi_klen)
       IN  /\ fi_ret' = r.val
           /\ fi_pc' = IF r.ok THEN "done" ELSE "raised"
    /\ UNCHANGED <<fi_incl, fi_klen, fi_padded>>
    /\ OnlyFilter

InitFilter ==
    /\ InclIdle /\ WarpIdle /\ PhiIdle /\ ReadIdle /\ PipeIdle
    /\ fi_incl \in SeqsUpTo(FilterValues, MaxN)
    /\ fi_klen \in 0..MaxKernel
    /\ fi_pc = "pad"
    /\ fi_padded = <<>>
    /\ fi_ret = <<>>

NextFilter ==
    \/ filter_incl_pad
    \/ filter_incl_convolve

SpecFilter == InitFilter /\ [][NextFilter]_vars

(***************************************************************************)
(* C5: for every kernel_length and every series of length N >=             *)
(* kernel_length, filter_incl returns a series of length N, the padded     *)
(* series having length N + 2 * (kernel_length \div 2).                    *)
(***************************************************************************)
C5_LengthPreserved ==
    (fi_pc = "done" /\ Len(fi_incl) >= fi_klen) =>
        /\ Len(fi_padded) = Len(fi_incl) + 2 * (fi_klen \div 2)
        /\ Len(fi_ret) = Len(fi_incl)

(***************************************************************************)
(* rotate_cloud and warp_cloud: roll and pitch rotations                   *)
(***************************************************************************)
MaxWarpPts == 1
MaxWarpIt == 3
MaxWarpTime == 2
WarpAngles == {<<0, 90>>, <<90, 0>>}

\* np.cos(np.deg2rad(a)) and np.sin(np.deg2rad(a)), for multiples of 90
cosd(a) ==
    CASE a % 360 = 0 -> 1 [] a % 360 = 90 -> 0
      [] a % 360 = 180 -> -1 [] a % 360 = 270 -> 0

sind(a) ==
    CASE a % 360 = 0 -> 0 [] a % 360 = 90 -> 1
      [] a % 360 = 180 -> 0 [] a % 360 = 270 -> -1

\* lines 125-129 and 159-163
R_roll(roll) ==
    << <<1, 0, 0>>,
       <<0, cosd(roll), -sind(roll)>>,
       <<0, sind(roll), cosd(roll)>> >>

\* lines 130-134 and 164-168
R_pitch(pitch) ==
    << <<cosd(pitch), 0, sind(pitch)>>,
       <<0, 1, 0>>,
       <<-sind(pitch), 0, cosd(pitch)>> >>

\* M @ v for a 3x3 matrix M and a column v
MatVec3(M, v) ==
    [r \in 1..3 |-> M[r][1] * v[1] + M[r][2] * v[2] + M[r][3] * v[3]]

\* R_pitch @ R_roll @ (x, y, z) for one point
Rotate(roll, pitch, v) == MatVec3(R_pitch(pitch), MatVec3(R_roll(roll), v))

\* line 146: it_mid = (it[1:] + it[:-1]) / 2, doubled
it_mid2(it) == [i \in 1..(Len(it) - 1) |-> it[i + 1] + it[i]]

\* the mutation: the interior bins closed on both sides
warp_mask_closed(i, n, pt, mid2) ==
    IF i = 1 THEN [j \in 1..Len(pt) |-> 2 * pt[j] <= mid2[i]]
    ELSE IF i = n THEN [j \in 1..Len(pt) |-> 2 * pt[j] > mid2[i - 1]]
    ELSE [j \in 1..Len(pt) |->
            2 * pt[j] >= mid2[i - 1] /\ 2 * pt[j] <= mid2[i]]

\* the mutation: the first bin open at its midpoint
warp_mask_open(i, n, pt, mid2) ==
    IF i = 1 THEN [j \in 1..Len(pt) |-> 2 * pt[j] < mid2[i]]
    ELSE IF i = n THEN [j \in 1..Len(pt) |-> 2 * pt[j] > mid2[i - 1]]
    ELSE [j \in 1..Len(pt) |->
            2 * pt[j] > mid2[i - 1] /\ 2 * pt[j] <= mid2[i]]

\* lines 152-157: the mask of bin i of n (i counts from 1 here), on doubled
\* times
warp_mask(i, n, pt, mid2) ==
    IF i = 1 THEN [j \in 1..Len(pt) |-> 2 * pt[j] <= mid2[i]]
    ELSE IF i = n THEN [j \in 1..Len(pt) |-> 2 * pt[j] > mid2[i - 1]]
    ELSE [j \in 1..Len(pt) |->
            2 * pt[j] > mid2[i - 1] /\ 2 * pt[j] <= mid2[i]]

\* lines 151-169: iteration i of the loop (i counts from 1 here); xyz_rot is
\* a sequence of rows.  it_mid[0] does not exist when there is a single
\* sample, and roll[i] or pitch[i] may not: IndexError
warp_iter(i, xyz_rot, pt, x, y, z, it, rp) ==
    IF Len(it) = 1 \/ i > Len(rp.roll) \/ i > Len(rp.pitch)
    THEN [ok |-> FALSE, xyz |-> xyz_rot]
    ELSE LET mask == warp_mask(i, Len(it), pt, it_mid2(it))
         IN  [ok  |-> TRUE,
              xyz |-> <<>> \o [j \in 1..Len(xyz_rot) |->
                                 IF mask[j]
                                 THEN Rotate(rp.roll[i], rp.pitch[i],
                                             <<x[j], y[j], z[j]>>)
                                 ELSE xyz_rot[j]]]

\* line 150: iterations lo..hi of the loop, in order, stopping at the first
\* that raises
RECURSIVE warp_loop(_, _, _, _, _, _, _, _, _)
warp_loop(lo, hi, xyz_rot, pt, x, y, z, it, rp) ==
    IF lo > hi THEN [ok |-> TRUE, xyz |-> xyz_rot]
    ELSE IF lo = hi THEN warp_iter(lo, xyz_rot, pt, x, y, z, it, rp)
    ELSE LET m     == (lo + hi) \div 2
             first == warp_loop(lo, m, xyz_rot, pt, x, y, z, it, rp)
         IN  IF first.ok
             THEN warp_loop(m + 1, hi, first.xyz, pt, x, y, z, it, rp)
             ELSE first

\* lines 144-175
warp_cloud(pt, x, y, z, it, roll, pitch) ==
    LET r == warp_loop(1, Len(it), [j \in 1..Len(x) |-> <<0, 0, 0>>],
                       pt, x, y, z, it, [roll |-> roll, pitch |-> pitch])
    IN  [ok |-> r.ok,
         x  |-> [j \in 1..Len(r.xyz) |-> r.xyz[j][1]],
         y  |-> [j \in 1..Len(r.xyz) |-> r.xyz[j][2]],
         z  |-> [j \in 1..Len(r.xyz) |-> r.xyz[j][3]]]

\* lines 114-141, mode='mean' (roll[len // 2] in mode 'center')
rotate_cloud(x, y, z, roll, pitch, mode) ==
    LET r == IF mode = "center" THEN roll[Len(roll) \div 2 + 1]
             ELSE IF mode = "mean" THEN mean(roll) ELSE roll
        p == IF mode = "center" THEN pitch[Len(pitch) \div 2 + 1]
             ELSE IF mode = "mean" THEN mean(pitch) ELSE pitch
        xyz == [j \in 1..Len(x) |-> Rotate(r, p, <<x[j], y[j], z[j]>>)]
    IN  [x |-> [j \in 1..Len(x) |-> xyz[j][1]],
         y |-> [j \in 1..Len(x) |-> xyz[j][2]],
         z |-> [j \in 1..Len(x) |-> xyz[j][3]]]

warp_cloud_call ==
    /\ w_pc = "call"
    /\ LET r == warp_cloud(w_pt, w_x, w_y, w_z, w_it, w_roll, w_pitch)
       IN  /\ w_ret' = [x |-> r.x, y |-> r.y, z |-> r.z]
           /\ w_pc' = IF r.ok THEN "done" ELSE "raised"
    /\ UNCHANGED <<w_pt, w_x, w_y, w_z, w_it, w_roll, w_pitch>>
    /\ OnlyWarp

InitWarp ==
    /\ InclIdle /\ FilterIdle /\ PhiIdle /\ ReadIdle /\ PipeIdle
    /\ w_pt \in SeqsUpTo(0..MaxWarpTime, MaxWarpPts)
    /\ w_x = [j \in 1..Len(w_pt) |-> j]
    /\ w_y = [j \in 1..Len(w_pt) |-> j + 1]
    /\ w_z = [j \in 1..Len(w_pt) |-> j + 2]
    /\ w_it \in SeqsUpTo(0..MaxWarpTime, MaxWarpIt)
    /\ \E a \in [1..Len(w_it) -> WarpAngles] :
          /\ w_roll = [i \in 1..Len(w_it) |-> a[i][1]]
          /\ w_pitch = [i \in 1..Len(w_it) |-> a[i][2]]
    /\ w_pc = "call"
    /\ w_ret = [x |-> <<>>, y |-> <<>>, z |-> <<>>]

NextWarp == warp_cloud_call

SpecWarp == InitWarp /\ [][NextWarp]_vars

\* the bins that point j falls in
BinsOf(j) ==
    {i \in 1..Len(w_it) : warp_mask(i, Len(w_it), w_pt, it_mid2(w_it))[j]}

NonDecreasing(s) == \A k \in 1..(Len(s) - 1) : s[k] <= s[k + 1]

StrictlyIncreasing(s) == \A k \in 1..(Len(s) - 1) : s[k] < s[k + 1]

(***************************************************************************)
(* C1: for any point times and any inclination times with at least two     *)
(* samples, the masks of warp_cloud put every point in exactly one bin.    *)
(***************************************************************************)
C1_OneBinAnyTimes ==
    (w_pc = "done" /\ Len(w_it) >= 2) =>
        \A j \in DOMAIN w_pt : Cardinality(BinsOf(j)) = 1

\* C1 as amended: the same, for inclination times in ascending order
C1_OneBinAscending ==
    (w_pc = "done" /\ Len(w_it) >= 2 /\ NonDecreasing(w_it)) =>
        \A j \in DOMAIN w_pt : Cardinality(BinsOf(j)) = 1

\* a point on the midpoint of two of three ascending samples was binned
C1_Witness ==
    /\ w_pc = "done"
    /\ w_it = <<0, 2, 2>>
    /\ w_pt = <<2>>
    /\ BinsOf(1) = {2}

(***************************************************************************)
(* C8: for strictly increasing inclination times (two or more), every      *)
(* point is rotated by the roll and pitch of a sample nearest in time, the *)
(* earlier one for a point on a midpoint; points before the first sample   *)
(* use the first, points after the last use the last; no output row keeps  *)
(* the zero it was initialised with.                                       *)
(***************************************************************************)
Abs(a) == IF a < 0 THEN -a ELSE a

Nearest(p, it) ==
    CHOOSE i \in DOMAIN it :
        /\ \A k \in DOMAIN it : Abs(p - it[i]) <= Abs(p - it[k])
        /\ \A k \in DOMAIN it : Abs(p - it[k]) = Abs(p - it[i]) => i <= k

C8_NearestSample ==
    (w_pc = "done" /\ Len(w_it) >= 2 /\ StrictlyIncreasing(w_it)) =>
        \A j \in DOMAIN w_pt :
            LET i   == Nearest(w_pt[j], w_it)
                row == <<w_ret.x[j], w_ret.y[j], w_ret.z[j]>>
            IN  /\ row = Rotate(w_roll[i], w_pitch[i], <<w_x[j], w_y[j], w_z[j]>>)
                /\ row # <<0, 0, 0>>
                /\ w_pt[j] <= w_it[1] => i = 1
                /\ w_pt[j] >= w_it[Len(w_it)] => i = Len(w_it)

\* a point on a midpoint took the rotation of the earlier sample, which
\* differs from that of the later one
C8_Witness ==
    /\ w_pc = "done"
    /\ w_it = <<0, 2>> /\ w_pt = <<1>>
    /\ w_roll = <<90, 0>> /\ w_pitch = <<0, 90>>
    /\ <<w_ret.x[1], w_ret.y[1], w_ret.z[1]>> = <<1, -3, 2>>

(***************************************************************************)
(* get_phi: the azimuth of the point nearest in time to every inclination  *)
(* sample.  Positions count from 0, as in the source.  Azimuths are in     *)
(* quarter turns (pi / 2), for points on the axes.                         *)
(***************************************************************************)
MaxPhiPts == 3
MaxPhiIt == 2
MaxPhiTime == 2
PhiCoords == {<<100, 0>>, <<200, 0>>, <<0, -200>>}

\* the radius of the near field, line 225
NearField == 100

\* line 225: np.sqrt(x**2 + y**2) > 100, squared on both sides
near_field_mask(x, y) ==
    [j \in 1..Len(x) |-> x[j] * x[j] + y[j] * y[j] > NearField * NearField]

\* np.searchsorted(a, v), side='left', for one value v: binary search on
\* positions lo..hi (from 0)
RECURSIVE bisect_left(_, _, _, _)
bisect_left(a, v, lo, hi) ==
    IF lo >= hi THEN lo
    ELSE LET m == lo + (hi - lo) \div 2
         IN  IF a[m + 1] < v THEN bisect_left(a, v, m + 1, hi)
             ELSE bisect_left(a, v, lo, m)

searchsorted(a, v) == [n \in 1..Len(v) |-> bisect_left(a, v[n], 0, Len(a))]

\* the mutation: only positions past the end are clamped
clamp_high_off_by_one(idx, n) ==
    [k \in 1..Len(idx) |-> IF idx[k] > n THEN idx[k] - 1 ELSE idx[k]]

\* line 234: idx[idx >= len(pt)] -= 1
clamp_high(idx, n) ==
    [k \in 1..Len(idx) |-> IF idx[k] >= n THEN idx[k] - 1 ELSE idx[k]]

\* a[i] for a position i from 0, negative positions counting from the end;
\* defined when InBounds
InBounds(a, i) == -Len(a) <= i /\ i < Len(a)

At(a, i) == IF i < 0 THEN a[Len(a) + i + 1] ELSE a[i + 1]

\* np.arctan2(y, x) in quarter turns
arctan2(y, x) ==
    CASE y = 0 /\ x > 0 -> 0
      [] y > 0 /\ x = 0 -> 1
      [] y = 0 /\ x < 0 -> 2
      [] y < 0 /\ x = 0 -> -1

\* lines 225-228
get_phi_mask ==
    /\ ph_pc = "mask"
    /\ LET mask == near_field_mask(ph_x, ph_y)
       IN  /\ ph_mpt' = Compress(ph_pt, mask)
           /\ ph_mx' = Compress(ph_x, mask)
           /\ ph_my' = Compress(ph_y, mask)
    /\ ph_pc' = "search"
    /\ UNCHANGED <<ph_it, ph_pt, ph_x, ph_y, ph_idx, ph_ret>>
    /\ OnlyPhi

\* line 231
get_phi_search ==
    /\ ph_pc = "search"
    /\ ph_idx' = searchsorted(ph_mpt, ph_it)
    /\ ph_pc' = "clamp"
    /\ UNCHANGED <<ph_it, ph_pt, ph_x, ph_y, ph_mpt, ph_mx, ph_my, ph_ret>>
    /\ OnlyPhi

\* line 234
get_phi_clamp ==
    /\ ph_pc = "clamp"
    /\ ph_idx' = clamp_high(ph_idx, Len(ph_mpt))
    /\ ph_pc' = "lookup"
    /\ UNCHANGED <<ph_it, ph_pt, ph_x, ph_y, ph_mpt, ph_mx, ph_my, ph_ret>>
    /\ OnlyPhi

\* lines 237-239: y[idx], x[idx] raise IndexError on a position out of bounds
get_phi_lookup ==
    /\ ph_pc = "lookup"
    /\ IF \A k \in DOMAIN ph_idx : InBounds(ph_mx, ph_idx[k])
       THEN /\ ph_ret' = [k \in 1..Len(ph_idx) |->
                            arctan2(At(ph_my, ph_idx[k]), At(ph_mx, ph_idx[k]))]
            /\ ph_pc' = "done"
       ELSE /\ ph_ret' = ph_ret
            /\ ph_pc' = "raised"
    /\ UNCHANGED <<ph_it, ph_pt, ph_x, ph_y, ph_mpt, ph_mx, ph_my, ph_idx>>
    /\ OnlyPhi

InitPhi ==
    /\ InclIdle /\ FilterIdle /\ WarpIdle /\ ReadIdle /\ PipeIdle
    /\ ph_pt \in {s \in SeqsUpTo(1..MaxPhiTime, MaxPhiPts) : NonDecreasing(s)}
    /\ \E c \in [1..Len(ph_pt) -> PhiCoords] :
          /\ ph_x = [j \in 1..Len(ph_pt) |-> c[j][1]]
          /\ ph_y = [j \in 1..Len(ph_pt) |-> c[j][2]]
    /\ ph_it \in SeqsUpTo(0..(MaxPhiTime + 1), MaxPhiIt)
    /\ ph_pc = "mask"
    /\ ph_mpt = <<>> /\ ph_mx = <<>> /\ ph_my = <<>>
    /\ ph_idx = <<>>
    /\ ph_ret = <<>>

NextPhi ==
    \/ get_phi_mask
    \/ get_phi_search
    \/ get_phi_clamp
    \/ get_phi_lookup

SpecPhi == InitPhi /\ [][NextPhi]_vars

\* the position (from 0) of the first point of a with time >= v, Len(a) if
\* there is none
FirstAtLeast(a, v) ==
    IF \E j \in DOMAIN a : a[j] >= v
    THEN (CHOOSE j \in DOMAIN a :
            a[j] >= v /\ \A i \in DOMAIN a : a[i] >= v => j <= i) - 1
    ELSE Len(a)

IndicesClamped ==
    /\ Len(ph_idx) = Len(ph_it)
    /\ \A k \in DOMAIN ph_idx :
          /\ ph_idx[k] \in 0..(Len(ph_mpt) - 1)
          /\ ph_idx[k] = Min(FirstAtLeast(ph_mpt, ph_it[k]), Len(ph_mpt) - 1)

(***************************************************************************)
(* C6: for any inclination times and any ascending point times, after the  *)
(* near-field exclusion every index used to look up a point lies in        *)
(* 0..len(pt)-1 and is min(k, len(pt)-1), k the position of the first      *)
(* remaining point with time >= the inclination time; the lookup does not  *)
(* fail, and one azimuth is returned per inclination sample.               *)
(***************************************************************************)
C6_ClampedAlways ==
    /\ ph_pc \in {"lookup", "done", "raised"} => IndicesClamped
    /\ ph_pc # "raised"
    /\ ph_pc = "done" => Len(ph_ret) = Len(ph_it)

\* C6 as amended: the same, when at least one point remains after the
\* near-field exclusion
C6_ClampedNonEmpty ==
    (ph_pc \in {"lookup", "done", "raised"} /\ ph_mpt # <<>>) =>
        /\ IndicesClamped
        /\ ph_pc # "raised"
        /\ ph_pc = "done" => Len(ph_ret) = Len(ph_it)

\* an inclination time after the last point time selected the last point
\* that remained, the near-field point before it having been excluded
C6_Witness ==
    /\ ph_pc = "done"
    /\ ph_pt = <<1, 2, 2>> /\ ph_x = <<100, 200, 0>> /\ ph_y = <<0, 0, -200>>
    /\ ph_it = <<3, 2>>
    /\ ph_idx = <<1, 0>>
    /\ ph_ret = <<-1, 0>>

(***************************************************************************)
(* get_pnts and get_socs: a pipeline of the point-cloud engine, executed   *)
(* stage by stage on the engine's view.  A point is [t, id, applied]: its  *)
(* GpsTime, its identity, and the coordinate stages applied to it so far   *)
(* (the engine's reprojection and matrix inversion are not computed).      *)
(***************************************************************************)
MaxCloud == 3
MaxCloudTime == 2

\* lines 11-17
get_pnts_pipe ==
    << [type |-> "reader", arg |-> "filename"],
       [type |-> "filters.sort", arg |-> "GpsTime"] >>

\* the mutation: get_socs without its sort stage
get_socs_pipe_unsorted ==
    << [type |-> "reader", arg |-> "filename"],
       [type |-> "filters.reprojection", arg |-> "EPSG:32624->EPSG:7789"],
       [type |-> "filters.transformation", arg |-> "POP inverted"],
       [type |-> "filters.transformation", arg |-> "SOP inverted"],
       [type |-> "writer", arg |-> "outfilename"] >>

\* lines 38-61; the engine matches the dimension name Gpstime regardless of
\* case
get_socs_pipe ==
    << [type |-> "reader", arg |-> "filename"],
       [type |-> "filters.reprojection", arg |-> "EPSG:32624->EPSG:7789"],
       [type |-> "filters.transformation", arg |-> "POP inverted"],
       [type |-> "filters.transformation", arg |-> "SOP inverted"],
       [type |-> "filters.sort", arg |-> "Gpstime"],
       [type |-> "writer", arg |-> "outfilename"] >>

pdal_pipe == IF rd_fn = "get_pnts" THEN get_pnts_pipe ELSE get_socs_pipe

\* the stage the engine executes next
NextStage == pdal_pipe[rd_stage + 1]

SortedByTime(view) == \A k \in 1..(Len(view) - 1) : view[k].t <= view[k + 1].t

\* the orders filters.sort may leave the view in: ascending by time, points
\* of equal time in any order
SortResults(view) ==
    {s \in [1..Len(view) -> Range(view)] :
        Range(s) = Range(view) /\ SortedByTime(s)}

\* the reader stage: the view is the file
pdal_reader ==
    /\ rd_fn # "idle" /\ rd_stage < Len(pdal_pipe)
    /\ NextStage.type = "reader"
    /\ rd_view' = rd_file
    /\ rd_stage' = rd_stage + 1
    /\ UNCHANGED <<rd_fn, rd_file, rd_out, rd_ret>>
    /\ OnlyRead

\* filters.reprojection and filters.transformation: a conversion of every
\* point's coordinates, in place in the view
pdal_transform ==
    /\ rd_fn # "idle" /\ rd_stage < Len(pdal_pipe)
    /\ NextStage.type \in {"filters.reprojection", "filters.transformation"}
    /\ rd_view' = [k \in 1..Len(rd_view) |->
                     [rd_view[k] EXCEPT
                        !.applied = Append(@, NextStage.arg)]]
    /\ rd_stage' = rd_stage + 1
    /\ UNCHANGED <<rd_fn, rd_file, rd_out, rd_ret>>
    /\ OnlyRead

\* filters.sort on GpsTime, ascending
pdal_sort ==
    /\ rd_fn # "idle" /\ rd_stage < Len(pdal_pipe)
    /\ NextStage.type = "filters.sort"
    /\ rd_view' \in SortResults(rd_view)
    /\ rd_stage' = rd_stage + 1
    /\ UNCHANGED <<rd_fn, rd_file, rd_out, rd_ret>>
    /\ OnlyRead

\* the writer stage
pdal_writer ==
    /\ rd_fn # "idle" /\ rd_stage < Len(pdal_pipe)
    /\ NextStage.type = "writer"
    /\ rd_out' = rd_view
    /\ rd_stage' = rd_stage + 1
    /\ UNCHANGED <<rd_fn, rd_file, rd_view, rd_ret>>
    /\ OnlyRead

\* lines 21-29 and 65-73: the arrays of the view are returned
pdal_return ==
    /\ rd_fn # "idle" /\ rd_stage = Len(pdal_pipe)
    /\ rd_ret' = rd_view
    /\ rd_stage' = rd_stage + 1
    /\ UNCHANGED <<rd_fn, rd_file, rd_view, rd_out>>
    /\ OnlyRead

ReadDone == rd_fn # "idle" /\ rd_stage = Len(pdal_pipe) + 1

InitRead ==
    /\ InclIdle /\ FilterIdle /\ WarpIdle /\ PhiIdle /\ PipeIdle
    /\ rd_fn \in {"get_pnts", "get_socs"}
    /\ \E ts \in SeqsUpTo(1..MaxCloudTime, MaxCloud) :
          rd_file = [k \in 1..Len(ts) |->
                       [t |-> ts[k], id |-> k, applied |-> <<>>]]
    /\ rd_stage = 0
    /\ rd_view = <<>>
    /\ rd_out = <<>>
    /\ rd_ret = <<>>

NextRead ==
    \/ pdal_reader
    \/ pdal_transform
    \/ pdal_sort
    \/ pdal_writer
    \/ pdal_return

SpecRead == InitRead /\ [][NextRead]_vars

(***************************************************************************)
(* C7: in get_pnts and in get_socs the records are sorted ascending by     *)
(* timestamp before the first reprojection or transform stage is applied   *)
(* to them.                                                                *)
(***************************************************************************)
C7_SortedBeforeTransform ==
    (rd_fn # "idle" /\ rd_stage >= 1 /\ rd_stage < Len(pdal_pipe)
        /\ NextStage.type \in {"filters.reprojection", "filters.transformation"})
        => SortedByTime(rd_view)

\* C7 as amended: the cloud that get_pnts or get_socs returns is sorted
\* ascending by timestamp (so that whatever is applied to a returned cloud
\* sees sorted records) and holds the points of the file; in get_socs every
\* point has then been through the reprojection and the two inverse
\* transforms, in that order, and the file written is the cloud returned
C7_SortedOnReturn ==
    ReadDone =>
        /\ SortedByTime(rd_ret)
        /\ Len(rd_ret) = Len(rd_file)
        /\ {[t |-> r.t, id |-> r.id] : r \in Range(rd_ret)}
              = {[t |-> r.t, id |-> r.id] : r \in Range(rd_file)}
        /\ rd_fn = "get_pnts" =>
              \A k \in DOMAIN rd_ret : rd_ret[k].applied = <<>>
        /\ rd_fn = "get_socs" =>
              /\ \A k \in DOMAIN rd_ret :
                    rd_ret[k].applied = <<"EPSG:32624->EPSG:7789",
                                          "POP inverted", "SOP inverted">>
              /\ rd_out = rd_ret

\* get_socs has returned, sorted, a cloud whose file was out of order
C7_Witness ==
    /\ ReadDone
    /\ rd_fn = "get_socs"
    /\ Len(rd_file) = 3
    /\ rd_file[1].t = 2 /\ rd_file[2].t = 1 /\ rd_file[3].t = 2
    /\ rd_ret[1].id = 2

(***************************************************************************)
(* The orchestration pipelines: no_adj, warp_adj, mr_warp_adj, tr_warp_adj *)
(* and mr_rotate_adj, one statement of the source per step.  numpy arrays  *)
(* are objects: heap[i] is the array with identity i, names hold           *)
(* identities, and an in-place operation changes the array under every     *)
(* name that holds it.                                                     *)
(***************************************************************************)
InclLen == 50
RegLen == 2
PipeAngles == {<<0, 90>>, <<90, 0>>}
RegAngles == {<<0, 0>>, <<90, 180>>}
Pipelines == {"no_adj", "warp_adj", "mr_warp_adj", "tr_warp_adj",
              "mr_rotate_adj"}

\* the contents of a transform-matrix file: a quarter turn about z followed
\* by a shift along x, or a shift along y
MatFiles ==
    { << <<0, -1, 0, 1>>, <<1, 0, 0, 0>>, <<0, 0, 1, 0>>, <<0, 0, 0, 1>> >>,
      << <<1, 0, 0, 0>>, <<0, 1, 0, 5>>, <<0, 0, 1, 0>>, <<0, 0, 0, 1>> >> }

\* the parameters (a, c, d) that curve_fit may return: a and d in degrees, c
\* in quarter turns, like the azimuths
FitGrid == {0, 90} \X {0, 1} \X {0, 90}

\* line 243: a * np.sin(phi + c) + d, phi and c in quarter turns
model(phi, a, c, d) == a * sind(90 * (phi + c)) + d

\* the sum of squared residuals that curve_fit minimises
RECURSIVE SumSqResiduals(_, _, _, _)
SumSqResiduals(phi, incl, p, k) ==
    IF k > Len(phi) THEN 0
    ELSE LET r == model(phi[k], p[1], p[2], p[3]) - incl[k]
         IN  r * r + SumSqResiduals(phi, incl, p, k + 1)

\* lines 246-254: the parameter triples of least squared residual
fit_model(phi, incl) ==
    {p \in FitGrid :
        \A q \in FitGrid :
            SumSqResiduals(phi, incl, p, 1) <= SumSqResiduals(phi, incl, q, 1)}

\* lines 316-325, mat the matrix loaded from mat_file
sop_pop_cloud(x, y, z, mat) ==
    LET xyz_rot == [j \in 1..Len(x) |->
                      [r \in 1..4 |-> mat[r][1] * x[j] + mat[r][2] * y[j]
                                        + mat[r][3] * z[j] + mat[r][4] * 1]]
    IN  [x |-> [j \in 1..Len(x) |-> xyz_rot[j][1]],
         y |-> [j \in 1..Len(x) |-> xyz_rot[j][2]],
         z |-> [j \in 1..Len(x) |-> xyz_rot[j][3]]]

\* data_dir + "/" + root + ext
Path(ext) == <<"data_dir", "/", "root", ext>>

\* lines 344/347, 367/370, 398/401, 432/435, 462/465
CloudSuffix(name, georef) ==
    CASE name = "no_adj" ->
            IF georef THEN "-utm.laz" ELSE "-socs.laz"
      [] name = "warp_adj" ->
            IF georef THEN "-warped-utm.laz" ELSE "-warped-socs.laz"
      [] name = "mr_warp_adj" ->
            IF georef THEN "-regmeanrem-warped-utm.laz"
            ELSE "-regmeanrem-warped-socs.laz"
      [] name = "tr_warp_adj" ->
            IF georef THEN "-regtrendrem-warped-utm.laz"
            ELSE "-regtrendrem-warped-socs.laz"
      [] name = "mr_rotate_adj" ->
            IF georef THEN "-regmeanrem-meanrotated-utm.laz"
            ELSE "-regmeanrem-meanrotated-socs.laz"

\* lines 405, 439, 469: the file of the inclination with the bias removed
AdjExt(name) ==
    CASE name = "mr_warp_adj" -> "-incl-regmeanrem.txt"
      [] name = "tr_warp_adj" -> "-incl-regtrendrem.txt"
      [] name = "mr_rotate_adj" -> "-incl-regmeanrem.txt"

\* lines 374, 407, 441: the file of the filtered inclination
FilteredExt(name) ==
    CASE name = "warp_adj" -> "-incl-filtered.txt"
      [] name = "mr_warp_adj" -> "-incl-regmeanrem-filtered.txt"
      [] name = "tr_warp_adj" -> "-incl-regtrendrem-filtered.txt"

\* line 471
MeanExt == "-incl-regmeanrem-mean.txt"

\* the statements before the cloud is saved
StepsBefore(name) ==
    CASE name = "no_adj" -> <<>>
      [] name = "warp_adj" -> <<"filter_roll", "filter_pitch", "warp">>
      [] name = "mr_warp_adj" ->
            <<"remove_mean", "filter_roll", "filter_pitch", "warp">>
      [] name = "tr_warp_adj" ->
            <<"fit_roll", "fit_pitch", "remove_trend",
              "filter_roll", "filter_pitch", "warp">>
      [] name = "mr_rotate_adj" -> <<"remove_mean", "mean", "rotate">>

\* the if georef: ... else: ... of every pipeline
StepsCloud(georef) ==
    IF georef THEN <<"sop", "pop", "save_utm">> ELSE <<"save_pnts">>

\* the mutation: mr_rotate_adj without its file of the mean
StepsAfterNoMean(name) ==
    CASE name = "no_adj" -> <<>>
      [] name = "warp_adj" -> <<"save_incl_filtered">>
      [] name = "mr_warp_adj" -> <<"save_incl_adj", "save_incl_filtered">>
      [] name = "tr_warp_adj" -> <<"save_incl_adj", "save_incl_filtered">>
      [] name = "mr_rotate_adj" -> <<"save_incl_adj">>

\* the statements after the cloud is saved
StepsAfter(name) ==
    CASE name = "no_adj" -> <<>>
      [] name = "warp_adj" -> <<"save_incl_filtered">>
      [] name = "mr_warp_adj" -> <<"save_incl_adj", "save_incl_filtered">>
      [] name = "tr_warp_adj" -> <<"save_incl_adj", "save_incl_filtered">>
      [] name = "mr_rotate_adj" -> <<"save_incl_adj", "save_incl_mean">>

\* the mutation: the inclination files written before the cloud
ProgramInclFirst(name, georef) ==
    StepsBefore(name) \o StepsAfter(name) \o StepsCloud(georef)

\* lines 339-348, 351-375, 378-408, 411-442, 445-472
Program(name, georef) ==
    StepsBefore(name) \o StepsCloud(georef) \o StepsAfter(name)

\* the statement to execute is the one named label
AtStep(label) ==
    /\ pl_status = "running"
    /\ pl_pc < Len(Program(pl_name, pl_georef))
    /\ Program(pl_name, pl_georef)[pl_pc + 1] = label

Advance(label) ==
    /\ pl_pc' = pl_pc + 1
    /\ pl_trace' = Append(pl_trace, label)
    /\ UNCHANGED <<pl_name, pl_georef, pl_sop, pl_pop, pl_args, pl_orig,
                   pl_status, pl_failed>>

\* the statement raises: the exception leaves the pipeline
Raise(label) ==
    /\ pl_status' = "raised"
    /\ pl_failed' = label
    /\ UNCHANGED <<pl_name, pl_georef, pl_sop, pl_pop, pl_args, pl_orig,
                   pl_pc, pl_trace>>

\* lines 293-297, called on lines 382 and 449
remove_reg_mean_incl_call ==
    /\ AtStep("remove_mean")
    /\ LET roll  == heap[pl_args.roll]
           pitch == heap[pl_args.pitch]
           mr    == mean(heap[pl_args.reg_roll])
           mp    == mean(heap[pl_args.reg_pitch])
       IN  /\ heap' = heap \o << [k \in 1..Len(roll) |-> roll[k] - mr],
                                 [k \in 1..Len(pitch) |-> pitch[k] - mp] >>
           /\ pl_loc' = [pl_loc EXCEPT !.adj_roll = Len(heap) + 1,
                                       !.adj_pitch = Len(heap) + 2]
    /\ Advance("remove_mean")
    /\ UNCHANGED <<pl_scal, pl_fs>>
    /\ OnlyPipe

\* line 302
fit_model_roll ==
    /\ AtStep("fit_roll")
    /\ \E p \in fit_model(heap[pl_args.reg_phi], heap[pl_args.reg_roll]) :
          pl_scal' = [pl_scal EXCEPT !.roll_params = p]
    /\ Advance("fit_roll")
    /\ UNCHANGED <<heap, pl_loc, pl_fs>>
    /\ OnlyPipe

\* line 303
fit_model_pitch ==
    /\ AtStep("fit_pitch")
    /\ \E p \in fit_model(heap[pl_args.reg_phi], heap[pl_args.reg_pitch]) :
          pl_scal' = [pl_scal EXCEPT !.pitch_params = p]
    /\ Advance("fit_pitch")
    /\ UNCHANGED <<heap, pl_loc, pl_fs>>
    /\ OnlyPipe

\* lines 306-313: roll -= roll_modeled and pitch -= pitch_modeled change the
\* arrays passed in, which are then returned; line 415 binds them to tr_roll
\* and tr_pitch
remove_reg_trend_incl_subtract ==
    /\ AtStep("remove_trend")
    /\ LET phi   == heap[pl_args.phi]
           roll  == heap[pl_args.roll]
           pitch == heap[pl_args.pitch]
           rp    == pl_scal.roll_params
           pp    == pl_scal.pitch_params
       IN  /\ heap' = [heap EXCEPT
                ![pl_args.roll] = [k \in 1..Len(roll) |->
                    roll[k] - model(phi[k], rp[1], rp[2], rp[3])],
                ![pl_args.pitch] = [k \in 1..Len(pitch) |->
                    pitch[k] - model(phi[k], pp[1], pp[2], pp[3])]]
           /\ pl_loc' = [pl_loc EXCEPT !.adj_roll = pl_args.roll,
                                       !.adj_pitch = pl_args.pitch]
    /\ Advance("remove_trend")
    /\ UNCHANGED <<pl_scal, pl_fs>>
    /\ OnlyPipe

\* lines 354, 385, 419
filter_roll ==
    /\ AtStep("filter_roll")
    /\ LET r == filter_incl(heap[pl_loc.adj_roll], DefaultKernelLength)
       IN  IF r.ok
           THEN /\ heap' = Append(heap, r.val)
                /\ pl_loc' = [pl_loc EXCEPT !.filtered_roll = Len(heap) + 1]
                /\ Advance("filter_roll")
           ELSE /\ Raise("filter_roll")
                /\ UNCHANGED <<heap, pl_loc>>
    /\ UNCHANGED <<pl_scal, pl_fs>>
    /\ OnlyPipe

\* lines 355, 386, 420
filter_pitch ==
    /\ AtStep("filter_pitch")
    /\ LET r == filter_incl(heap[pl_loc.adj_pitch], DefaultKernelLength)
       IN  IF r.ok
           THEN /\ heap' = Append(heap, r.val)
                /\ pl_loc' = [pl_loc EXCEPT !.filtered_pitch = Len(heap) + 1]
                /\ Advance("filter_pitch")
           ELSE /\ Raise("filter_pitch")
                /\ UNCHANGED <<heap, pl_loc>>
    /\ UNCHANGED <<pl_scal, pl_fs>>
    /\ OnlyPipe

\* lines 358-361, 389-392, 423-426
warp_step ==
    /\ AtStep("warp")
    /\ LET r == warp_cloud(heap[pl_args.t], heap[pl_args.x], heap[pl_args.y],
                           heap[pl_args.z], heap[pl_args.it],
                           heap[pl_loc.filtered_roll],
                           heap[pl_loc.filtered_pitch])
       IN  IF r.ok
           THEN /\ heap' = heap \o <<r.x, r.y, r.z>>
                /\ pl_loc' = [pl_loc EXCEPT !.xw = Len(heap) + 1,
                                            !.yw = Len(heap) + 2,
                                            !.zw = Len(heap) + 3]
                /\ Advance("warp")
           ELSE /\ Raise("warp")
                /\ UNCHANGED <<heap, pl_loc>>
    /\ UNCHANGED <<pl_scal, pl_fs>>
    /\ OnlyPipe

\* lines 452-453
mean_step ==
    /\ AtStep("mean")
    /\ pl_scal' = [pl_scal EXCEPT
                     !.mean_mr_roll = mean(heap[pl_loc.adj_roll]),
                     !.mean_mr_pitch = mean(heap[pl_loc.adj_pitch])]
    /\ Advance("mean")
    /\ UNCHANGED <<heap, pl_loc, pl_fs>>
    /\ OnlyPipe

\* line 456
rotate_step ==
    /\ AtStep("rotate")
    /\ LET r == rotate_cloud(heap[pl_args.x], heap[pl_args.y], heap[pl_args.z],
                             heap[pl_loc.adj_roll], heap[pl_loc.adj_pitch],
                             "mean")
       IN  /\ heap' = heap \o <<r.x, r.y, r.z>>
           /\ pl_loc' = [pl_loc EXCEPT !.xw = Len(heap) + 1,
                                       !.yw = Len(heap) + 2,
                                       !.zw = Len(heap) + 3]
    /\ Advance("rotate")
    /\ UNCHANGED <<pl_scal, pl_fs>>
    /\ OnlyPipe

\* the mutation: the matrix of pop_file applied at the SOP step
sop_step_with_pop_file ==
    /\ AtStep("sop")
    /\ LET r == sop_pop_cloud(heap[pl_loc.xw], heap[pl_loc.yw],
                              heap[pl_loc.zw], pl_pop)
       IN  /\ heap' = heap \o <<r.x, r.y, r.z>>
           /\ pl_loc' = [pl_loc EXCEPT !.xg = Len(heap) + 1,
                                       !.yg = Len(heap) + 2,
                                       !.zg = Len(heap) + 3]
    /\ Advance("sop")
    /\ UNCHANGED <<pl_scal, pl_fs>>
    /\ OnlyPipe

\* lines 342, 365, 396, 430, 460
sop_step ==
    /\ AtStep("sop")
    /\ LET r == sop_pop_cloud(heap[pl_loc.xw], heap[pl_loc.yw],
                              heap[pl_loc.zw], pl_sop)
       IN  /\ heap' = heap \o <<r.x, r.y, r.z>>
           /\ pl_loc' = [pl_loc EXCEPT !.xg = Len(heap) + 1,
                                       !.yg = Len(heap) + 2,
                                       !.zg = Len(heap) + 3]
    /\ Advance("sop")
    /\ UNCHANGED <<pl_scal, pl_fs>>
    /\ OnlyPipe

\* lines 343, 366, 397, 431, 461
pop_step ==
    /\ AtStep("pop")
    /\ LET r == sop_pop_cloud(heap[pl_loc.xg], heap[pl_loc.yg],
                              heap[pl_loc.zg], pl_pop)
       IN  /\ heap' = heap \o <<r.x, r.y, r.z>>
           /\ pl_loc' = [pl_loc EXCEPT !.xg = Len(heap) + 1,
                                       !.yg = Len(heap) + 2,
                                       !.zg = Len(heap) + 3]
    /\ Advance("pop")
    /\ UNCHANGED <<pl_scal, pl_fs>>
    /\ OnlyPipe

\* the records that save_pnts and save_utm hand to the engine
CloudRows(t, x, y, z) == [j \in 1..Len(t) |-> <<t[j], x[j], y[j], z[j]>>]

\* lines 198-220, called on lines 345, 368, 399, 433, 463: the engine
\* reprojects EPSG:7789 to EPSG:32624 and writes
save_utm_step ==
    /\ AtStep("save_utm")
    /\ pl_fs' = Append(pl_fs,
          [name |-> Path(CloudSuffix(pl_name, pl_georef)),
           by |-> "save_utm",
           stages |-> <<"filters.reprojection", "writers.las">>,
           rows |-> CloudRows(heap[pl_args.t], heap[pl_loc.xg],
                              heap[pl_loc.yg], heap[pl_loc.zg])])
    /\ Advance("save_utm")
    /\ UNCHANGED <<heap, pl_loc, pl_scal>>
    /\ OnlyPipe

\* lines 178-195, called on lines 348, 371, 402, 436, 466
save_pnts_step ==
    /\ AtStep("save_pnts")
    /\ pl_fs' = Append(pl_fs,
          [name |-> Path(CloudSuffix(pl_name, pl_georef)),
           by |-> "save_pnts",
           stages |-> <<"writers.las">>,
           rows |-> CloudRows(heap[pl_args.t], heap[pl_loc.xw],
                              heap[pl_loc.yw], heap[pl_loc.zw])])
    /\ Advance("save_pnts")
    /\ UNCHANGED <<heap, pl_loc, pl_scal>>
    /\ OnlyPipe

\* lines 328-336: np.column_stack needs columns of one length (ValueError
\* otherwise)
save_incl(label, ext, t, roll, pitch) ==
    IF Len(t) = Len(roll) /\ Len(t) = Len(pitch)
    THEN /\ pl_fs' = Append(pl_fs,
                [name |-> Path(ext),
                 by |-> "save_incl",
                 stages |-> <<"np.savetxt">>,
                 rows |-> [k \in 1..Len(t) |-> <<t[k], roll[k], pitch[k]>>]])
         /\ Advance(label)
    ELSE /\ Raise(label)
         /\ UNCHANGED pl_fs

\* lines 405-406, 439-440, 469-470
save_incl_adj ==
    /\ AtStep("save_incl_adj")
    /\ save_incl("save_incl_adj", AdjExt(pl_name), heap[pl_args.it],
                 heap[pl_loc.adj_roll], heap[pl_loc.adj_pitch])
    /\ UNCHANGED <<heap, pl_loc, pl_scal>>
    /\ OnlyPipe

\* lines 374-375, 407-408, 441-442
save_incl_filtered ==
    /\ AtStep("save_incl_filtered")
    /\ save_incl("save_incl_filtered", FilteredExt(pl_name), heap[pl_args.it],
                 heap[pl_loc.filtered_roll], heap[pl_loc.filtered_pitch])
    /\ UNCHANGED <<heap, pl_loc, pl_scal>>
    /\ OnlyPipe

\* lines 471-472: the time is the literal 0, the columns are scalars
save_incl_mean ==
    /\ AtStep("save_incl_mean")
    /\ save_incl("save_incl_mean", MeanExt, <<0>>,
                 <<pl_scal.mean_mr_roll>>, <<pl_scal.mean_mr_pitch>>)
    /\ UNCHANGED <<heap, pl_loc, pl_scal>>
    /\ OnlyPipe

\* the statements that call the file system, the engine or the fit
External ==
    {"fit_roll", "fit_pitch", "sop", "pop", "save_utm", "save_pnts",
     "save_incl_adj", "save_incl_filtered", "save_incl_mean"}

\* np.loadtxt, optimize.curve_fit, the engine or np.savetxt raises; nothing
\* catches it
external_failure ==
    /\ pl_status = "running"
    /\ pl_pc < Len(Program(pl_name, pl_georef))
    /\ Program(pl_name, pl_georef)[pl_pc + 1] \in External
    /\ Raise(Program(pl_name, pl_georef)[pl_pc + 1])
    /\ UNCHANGED <<heap, pl_loc, pl_scal, pl_fs>>
    /\ OnlyPipe

\* the end of the function body
pipeline_return ==
    /\ pl_status = "running"
    /\ pl_pc = Len(Program(pl_name, pl_georef))
    /\ pl_status' = "done"
    /\ UNCHANGED <<pl_name, pl_georef, pl_sop, pl_pop, heap, pl_args, pl_orig,
                   pl_loc, pl_scal, pl_pc, pl_failed, pl_trace, pl_fs>>
    /\ OnlyPipe

Const(v, n) == [k \in 1..n |-> v]

ArgNames == {"t", "x", "y", "z", "it", "phi", "roll", "pitch",
             "reg_phi", "reg_roll", "reg_pitch"}

InitPipe ==
    /\ InclIdle /\ FilterIdle /\ WarpIdle /\ PhiIdle /\ ReadIdle
    /\ pl_name \in Pipelines
    /\ pl_georef \in BOOLEAN
    /\ pl_sop \in MatFiles
    /\ pl_pop \in MatFiles
    /\ \E a \in PipeAngles, r \in RegAngles :
          heap = << <<1, InclLen>>, <<1, 4>>, <<2, 5>>, <<3, 6>>,
                    [k \in 1..InclLen |-> k],
                    Const(0, InclLen),
                    Const(a[1], InclLen), Const(a[2], InclLen),
                    Const(1, RegLen),
                    Const(r[1], RegLen), Const(r[2], RegLen) >>
    /\ pl_args = [t |-> 1, x |-> 2, y |-> 3, z |-> 4, it |-> 5, phi |-> 6,
                  roll |-> 7, pitch |-> 8, reg_phi |-> 9, reg_roll |-> 10,
                  reg_pitch |-> 11]
    /\ pl_orig = [n \in ArgNames |-> heap[pl_args[n]]]
    \* no_adj saves x, y, z and warp_adj filters roll and pitch themselves
    /\ pl_loc = [adj_roll |-> pl_args.roll, adj_pitch |-> pl_args.pitch,
                 filtered_roll |-> 0, filtered_pitch |-> 0,
                 xw |-> pl_args.x, yw |-> pl_args.y, zw |-> pl_args.z,
                 xg |-> 0, yg |-> 0, zg |-> 0]
    /\ pl_scal = [roll_params |-> <<0, 0, 0>>, pitch_params |-> <<0, 0, 0>>,
                  mean_mr_roll |-> 0, mean_mr_pitch |-> 0]
    /\ pl_pc = 0
    /\ pl_status = "running"
    /\ pl_failed = ""
    /\ pl_trace = <<>>
    /\ pl_fs = <<>>

NextPipe ==
    \/ remove_reg_mean_incl_call
    \/ fit_model_roll
    \/ fit_model_pitch
    \/ remove_reg_trend_incl_subtract
    \/ filter_roll
    \/ filter_pitch
    \/ warp_step
    \/ mean_step
    \/ rotate_step
    \/ sop_step
    \/ pop_step
    \/ save_utm_step
    \/ save_pnts_step
    \/ save_incl_adj
    \/ save_incl_filtered
    \/ save_incl_mean
    \/ external_failure
    \/ pipeline_return

SpecPipe == InitPipe /\ [][NextPipe]_vars

\* the elements of s that are in S, in order
RECURSIVE Restrict(_, _)
Restrict(s, S) ==
    IF s = <<>> THEN <<>>
    ELSE IF Head(s) \in S THEN <<Head(s)>> \o Restrict(Tail(s), S)
         ELSE Restrict(Tail(s), S)

IsPrefix(a, b) == Len(a) <= Len(b) /\ a = SubSeq(b, 1, Len(a))

CloudFiles == {f \in Range(pl_fs) : f.by \in {"save_utm", "save_pnts"}}

InclFiles == {f \in Range(pl_fs) : f.by = "save_incl"}

\* the rotation of a pipeline, if it has one
RotationOf(name) ==
    CASE name = "no_adj" -> <<>>
      [] name \in {"warp_adj", "mr_warp_adj", "tr_warp_adj"} -> <<"warp">>
      [] name = "mr_rotate_adj" -> <<"rotate">>

\* the cloud in the SOCS frame, rotated if the pipeline rotates: the caller's
\* own arrays in no_adj, the arrays that warp_cloud or rotate_cloud returned
\* otherwise
SocsCloudIsTheRotatedOne ==
    IF pl_name = "no_adj"
    THEN pl_loc.xw = pl_args.x /\ pl_loc.yw = pl_args.y /\ pl_loc.zw = pl_args.z
    ELSE {pl_loc.xw, pl_loc.yw, pl_loc.zw} \cap Range(pl_args) = {}

\* the steps taken on the output cloud, in the order taken
CloudSteps ==
    Restrict(pl_trace, {"warp", "rotate", "sop", "pop", "save_utm",
                        "save_pnts"})

\* the coordinates in the SOCS frame that the pipeline holds
SocsCloud ==
    [x |-> heap[pl_loc.xw], y |-> heap[pl_loc.yw], z |-> heap[pl_loc.zw]]

\* the SOP matrix applied to them, then the POP matrix to the result
GeoCloud ==
    LET s == sop_pop_cloud(SocsCloud.x, SocsCloud.y, SocsCloud.z, pl_sop)
    IN  sop_pop_cloud(s.x, s.y, s.z, pl_pop)

(***************************************************************************)
(* C2: in every pipeline, with georef set the steps on the output cloud    *)
(* are rotation (if any), SOP transform, POP transform, save_utm, in that  *)
(* order, and the coordinates written are the SOP-then-POP transformed     *)
(* ones; with georef unset there is no SOP, POP or reprojection and        *)
(* save_pnts writes the (possibly rotated) SOCS coordinates.               *)
(***************************************************************************)
C2_GeorefOrder ==
    pl_status # "idle" =>
        IF pl_georef
        THEN /\ IsPrefix(CloudSteps, RotationOf(pl_name)
                                       \o <<"sop", "pop", "save_utm">>)
             /\ \A f \in CloudFiles :
                   /\ SocsCloudIsTheRotatedOne
                   /\ f.by = "save_utm"
                   /\ f.stages = <<"filters.reprojection", "writers.las">>
                   /\ f.rows = CloudRows(heap[pl_args.t], GeoCloud.x,
                                         GeoCloud.y, GeoCloud.z)
        ELSE /\ IsPrefix(CloudSteps, RotationOf(pl_name) \o <<"save_pnts">>)
             /\ \A f \in CloudFiles :
                   /\ SocsCloudIsTheRotatedOne
                   /\ f.by = "save_pnts"
                   /\ f.stages = <<"writers.las">>
                   /\ f.rows = CloudRows(heap[pl_args.t], SocsCloud.x,
                                         SocsCloud.y, SocsCloud.z)

\* a georeferenced run of a warping pipeline, with different SOP and POP
\* matrices, has completed
C2_Witness ==
    /\ pl_status = "done"
    /\ pl_name = "mr_warp_adj" /\ pl_georef
    /\ pl_sop # pl_pop
    /\ CloudSteps = <<"warp", "sop", "pop", "save_utm">>
    /\ Cardinality(CloudFiles) = 1

\* the table of output files: the suffix of the cloud, SOCS and UTM, and
\* the suffixes of the inclination files
OutputTable(name) ==
    CASE name = "no_adj" ->
            [socs |-> "-socs.laz", utm |-> "-utm.laz", incl |-> {}]
      [] name = "warp_adj" ->
            [socs |-> "-warped-socs.laz", utm |-> "-warped-utm.laz",
             incl |-> {"-incl-filtered.txt"}]
      [] name = "mr_warp_adj" ->
            [socs |-> "-regmeanrem-warped-socs.laz",
             utm |-> "-regmeanrem-warped-utm.laz",
             incl |-> {"-incl-regmeanrem.txt",
                       "-incl-regmeanrem-filtered.txt"}]
      [] name = "tr_warp_adj" ->
            [socs |-> "-regtrendrem-warped-socs.laz",
             utm |-> "-regtrendrem-warped-utm.laz",
             incl |-> {"-incl-regtrendrem.txt",
                       "-incl-regtrendrem-filtered.txt"}]
      [] name = "mr_rotate_adj" ->
            [socs |-> "-regmeanrem-meanrotated-socs.laz",
             utm |-> "-regmeanrem-meanrotated-utm.laz",
             incl |-> {"-incl-regmeanrem.txt", "-incl-regmeanrem-mean.txt"}]

(***************************************************************************)
(* C3: a run that completes has written exactly one point-cloud file,      *)
(* <data_dir>/<root><suffix> with the suffix of the pipeline's row (the    *)
(* UTM one iff georef is set), exactly the inclination files of that row,  *)
(* and no other file.                                                      *)
(***************************************************************************)
C3_OutputFiles ==
    pl_status = "done" =>
        LET row   == OutputTable(pl_name)
            cloud == <<"data_dir", "/", "root",
                       IF pl_georef THEN row.utm ELSE row.socs>>
            incl  == {<<"data_dir", "/", "root", e>> : e \in row.incl}
        IN  /\ {f.name : f \in CloudFiles} = {cloud}
            /\ {f.name : f \in InclFiles} = incl
            /\ Len(pl_fs) = 1 + Cardinality(incl)
            /\ CloudFiles \cup InclFiles = Range(pl_fs)

\* mr_rotate_adj has completed without georeferencing and written its cloud
\* and its two inclination files, the second a single row with time 0
C3_Witness ==
    /\ pl_status = "done"
    /\ pl_name = "mr_rotate_adj" /\ ~pl_georef
    /\ Len(pl_fs) = 3
    /\ pl_fs[3].name[4] = "-incl-regmeanrem-mean.txt"
    /\ Len(pl_fs[3].rows) = 1 /\ pl_fs[3].rows[1][1] = 0

NoDuplicates(s) == \A i, j \in DOMAIN s : s[i] = s[j] => i = j

(***************************************************************************)
(* C9: when a step of a pipeline fails, the failure leaves the pipeline:   *)
(* no later step runs and no step is retried; when the point-cloud write   *)
(* fails, none of the inclination files has been written.                  *)
(***************************************************************************)
C9_AbortOnFailure ==
    pl_status = "raised" =>
        /\ ~ENABLED NextPipe
        /\ NoDuplicates(pl_trace)
        /\ pl_failed \notin Range(pl_trace)
        /\ Len(pl_trace) = pl_pc
        /\ pl_failed \in {"save_utm", "save_pnts"} =>
              /\ InclFiles = {}
              /\ pl_fs = <<>>

\* the write of the georeferenced cloud of tr_warp_adj has failed
C9_Witness ==
    /\ pl_status = "raised"
    /\ pl_name = "tr_warp_adj"
    /\ pl_failed = "save_utm"
    /\ pl_trace = <<"fit_roll", "fit_pitch", "remove_trend", "filter_roll",
                    "filter_pitch", "warp", "sop", "pop">>

(***************************************************************************)
(* C10: no component changes its inputs: after any step of any pipeline    *)
(* the caller's arrays hold the values they held at the call, and the      *)
(* arrays with the bias removed are new arrays, not the caller's.          *)
(***************************************************************************)
C10_InputsUnchanged ==
    pl_status # "idle" =>
        /\ \A n \in ArgNames : heap[pl_args[n]] = pl_orig[n]
        /\ (\E k \in DOMAIN pl_trace :
                pl_trace[k] \in {"remove_mean", "remove_trend"})
              => {pl_loc.adj_roll, pl_loc.adj_pitch} \cap Range(pl_args) = {}

=============================================================================
